---- MODULE Spec2Model ----
(***************************************************************************)
(* Model of the three-stage SEO audit workflow: the LangGraph StateGraph   *)
(* of agents.py (page_auditor -> serp_analyst -> optimization_advisor ->   *)
(* END), the LlmAgent.run unit and the run_with_retries wrapper of         *)
(* tools.py, and the initial state built by main.py.                       *)
(***************************************************************************)
EXTENDS Integers, Sequences, FiniteSets, TLC

VARIABLES
    arg_url,         \* the url argument of main(url)
    state,           \* the graph's channels: url, page_audit, serp_analysis, report, errors
    pc,              \* the node the engine is at: START, a node name, END or RAISED
    phase,           \* position inside the node: enter, call, returned, raised
    attempt_number,  \* tenacity's attempt counter inside run_with_retries
    input_data,      \* the mapping handed to the unit's run by the current node
    result,          \* per node, the outcome of the wrapper's last attempt: a returned dict or the fault
    delays,          \* the sleeps run_with_retries made, in order, over the whole run
    calls,           \* per node, how many times its unit's run was invoked
    nodelog,         \* the nodes that have finished, in order
    errlog,          \* the value of state.errors right after each finished node
    environ,         \* the process environment at import: API keys set, client libraries importable
    boot,            \* start-up position: importing, tools_imported, agents_imported, running, aborted
    backend,         \* per node, the backend its LlmAgent was constructed with
    firecrawl,       \* the scrape adapter: library importable, API key set, global instance created
    scrape_log,      \* the outcomes of the calls of firecrawl_toolset, in order
    json_data,       \* a decoded JSON document handed to the page-audit validation
    validated        \* what the validation made of json_data ({} before it ran)

\* what is fixed once the modules are imported and main has built the state
aux == <<environ, boot, backend, firecrawl, scrape_log, json_data, validated>>

vars == <<arg_url, state, pc, phase, attempt_number, input_data, result,
          delays, calls, nodelog, errlog, aux>>

----------------------------------------------------------------------------
(* Bounds of the model *)

NumUrls == 2

UrlPool == <<"https://www.example.com", "https://site.test/page",
            "http://shop.test", "https://blog.test/post">>

Urls == {UrlPool[i] : i \in 1..NumUrls}

----------------------------------------------------------------------------
(* Values *)

EmptyDict == [k \in {} |-> ""]

Nodes == {"page_auditor", "serp_analyst", "optimization_advisor"}

\* main.py: the fresh state of a run
initial_state(url) ==
    [url |-> url, page_audit |-> EmptyDict, serp_analysis |-> EmptyDict,
     report |-> "", errors |-> <<>>]

\* agents.py: the output_schema bound to each unit ("" = none)
output_schema(n) ==
    CASE n = "page_auditor"         -> "PageAuditOutput"
      [] n = "serp_analyst"         -> "SerpAnalysis"
      [] n = "optimization_advisor" -> ""

\* agents.py: the output_key bound to each unit
output_key(n) ==
    CASE n = "page_auditor"         -> "page_audit"
      [] n = "serp_analyst"         -> "serp_analysis"
      [] n = "optimization_advisor" -> "report"

\* agents.py: the tag each node puts in front of its errors entries
node_tag(n) ==
    CASE n = "page_auditor"         -> "PageAuditor"
      [] n = "serp_analyst"         -> "SerpAnalyst"
      [] n = "optimization_advisor" -> "Advisor"

----------------------------------------------------------------------------
(* The texts the inference backend can answer with, and their decoding *)

Null == "None"

PageAuditTexts ==
    {"I could not scrape that page.",
     "{pa:seo}", "'''json{pa:seo}'''", "{pa:nokw}", "{pa:missing}"}

SerpTexts == {"No results, sorry.", "{serp:ok}", "'''json{serp:ok}'''", "{serp:missing}"}

ReportTexts == {"# SEO Audit Report", ""}

Texts(n) ==
    CASE n = "page_auditor"         -> PageAuditTexts
      [] n = "serp_analyst"         -> SerpTexts
      [] n = "optimization_advisor" -> ReportTexts

\* tools.py: the code-fence markers are stripped from the text (line 218);
\* a fence is written ''' here, a TLA+ string cannot hold a backquote
cleaned_text(output_text) ==
    CASE output_text = "'''json{pa:seo}'''"  -> "{pa:seo}"
      [] output_text = "'''json{serp:ok}'''" -> "{serp:ok}"
      [] OTHER                               -> output_text

JsonTexts == {"{pa:seo}", "{pa:nokw}", "{pa:missing}", "{serp:ok}", "{serp:missing}"}

\* json.loads raises JSONDecodeError on a text that is not a JSON document
JSONDecodeError(text) == text \notin JsonTexts

\* json.loads: the document a JSON text denotes
json_loads(text) ==
    CASE text = "{pa:seo}" ->
           [audit_results |->
               [title_tag |-> "SEO Tools", meta_description |-> "All tools",
                primary_heading |-> "Tools", content_summary |-> "A list of tools",
                link_counts |-> [internal |-> 3], word_count |-> 120],
            target_keywords |->
               [primary_keyword |-> "seo tools", search_intent |-> "informational"]]
      [] text = "{pa:nokw}" ->
           [audit_results |->
               [title_tag |-> "Home", meta_description |-> "",
                primary_heading |-> "Welcome", content_summary |-> "Landing page",
                link_counts |-> EmptyDict,
                technical_findings |-> <<"missing alt text">>],
            target_keywords |->
               [primary_keyword |-> "", search_intent |-> "navigational",
                secondary_keywords |-> <<"home">>]]
      [] text = "{pa:missing}" ->
           [audit_results |->
               [title_tag |-> "Home", meta_description |-> "",
                primary_heading |-> "Welcome", content_summary |-> "Landing page",
                link_counts |-> EmptyDict]]
      [] text = "{serp:ok}" ->
           [primary_keyword |-> "seo tools",
            top_10_results |->
               <<[rank |-> 1, title |-> "Best SEO tools", url |-> "https://a.test",
                  snippet |-> "Top picks", content_type |-> "listicle"]>>,
            key_themes |-> <<"pricing">>]
      [] text = "{serp:missing}" ->
           [primary_keyword |-> "seo tools"]

----------------------------------------------------------------------------
(* schemas.py: the output contracts.  XxxValid says the constructor accepts
   the document, Xxx is the model_dump of the validated record. *)

Opt(d, f, default) == IF f \in DOMAIN d THEN d[f] ELSE default

LinkCounts(d) ==
    [internal |-> Opt(d, "internal", Null), external |-> Opt(d, "external", Null),
     broken |-> Opt(d, "broken", Null), notes |-> Opt(d, "notes", Null)]

AuditResultsValid(d) ==
    {"title_tag", "meta_description", "primary_heading", "content_summary",
     "link_counts"} \subseteq DOMAIN d

AuditResults(d) ==
    [title_tag |-> d.title_tag, meta_description |-> d.meta_description,
     primary_heading |-> d.primary_heading,
     secondary_headings |-> Opt(d, "secondary_headings", <<>>),
     word_count |-> Opt(d, "word_count", Null),
     content_summary |-> d.content_summary,
     link_counts |-> LinkCounts(d.link_counts),
     technical_findings |-> Opt(d, "technical_findings", <<>>),
     content_opportunities |-> Opt(d, "content_opportunities", <<>>)]

TargetKeywordsValid(d) == {"primary_keyword", "search_intent"} \subseteq DOMAIN d

TargetKeywords_wrong_intent(d) ==
    [primary_keyword |-> d.primary_keyword,
     secondary_keywords |-> Opt(d, "secondary_keywords", <<>>),
     search_intent |-> d.primary_keyword,
     supporting_topics |-> Opt(d, "supporting_topics", <<>>)]

TargetKeywords(d) ==
    [primary_keyword |-> d.primary_keyword,
     secondary_keywords |-> Opt(d, "secondary_keywords", <<>>),
     search_intent |-> d.search_intent,
     supporting_topics |-> Opt(d, "supporting_topics", <<>>)]

PageAuditOutputValid(d) ==
    /\ {"audit_results", "target_keywords"} \subseteq DOMAIN d
    /\ AuditResultsValid(d.audit_results)
    /\ TargetKeywordsValid(d.target_keywords)

PageAuditOutput(d) ==
    [audit_results |-> AuditResults(d.audit_results),
     target_keywords |-> TargetKeywords(d.target_keywords)]

SerpAnalysisValid(d) == {"primary_keyword", "top_10_results"} \subseteq DOMAIN d

SerpAnalysis(d) ==
    [primary_keyword |-> d.primary_keyword, top_10_results |-> d.top_10_results,
     title_patterns |-> Opt(d, "title_patterns", <<>>),
     content_formats |-> Opt(d, "content_formats", <<>>),
     people_also_ask |-> Opt(d, "people_also_ask", <<>>),
     key_themes |-> Opt(d, "key_themes", <<>>),
     differentiation_opportunities |-> Opt(d, "differentiation_opportunities", <<>>)]

SchemaValid(schema, d) ==
    IF schema = "PageAuditOutput" THEN PageAuditOutputValid(d) ELSE SerpAnalysisValid(d)

SchemaDump(schema, d) ==
    IF schema = "PageAuditOutput" THEN PageAuditOutput(d) ELSE SerpAnalysis(d)

----------------------------------------------------------------------------
(* tools.py: LlmAgent.run *)

\* What the world does during one call of run: whether building the prompt
\* (outside every try block) raises, whether the backend request raises, and
\* the text the backend answers with.
Envs(n) ==
    {[prompt_raises |-> TRUE, backend_raises |-> FALSE, output_text |-> ""],
     [prompt_raises |-> FALSE, backend_raises |-> TRUE, output_text |-> ""]}
    \cup {[prompt_raises |-> FALSE, backend_raises |-> FALSE, output_text |-> t]
            : t \in Texts(n)}

Return(value) == [raised |-> FALSE, value |-> value]
Raise(exc)    == [raised |-> TRUE, exc |-> exc]

\* the validation of a decoded document in run, lines 220-230
validate_output(n, doc, output_text) ==
    IF ~SchemaValid(output_schema(n), doc)
    THEN [error |-> "validation error: Field required", raw_output |-> output_text]
    ELSE (output_key(n) :> SchemaDump(output_schema(n), doc))

\* the parse and validation part of run, lines 216-234
parse_output(n, output_text) ==
    IF output_schema(n) # ""
    THEN IF JSONDecodeError(cleaned_text(output_text))
         THEN [error |-> "Failed to parse JSON", raw_output |-> output_text]
         ELSE validate_output(n, json_loads(cleaned_text(output_text)), output_text)
    ELSE (output_key(n) :> output_text)

\* the backend request of run, lines 194-214: a fault of the backend is
\* caught and returned as a value
LlmAgent_run(n, env) ==
    IF env.prompt_raises
    THEN Raise("Object is not JSON serializable")
    ELSE IF env.backend_raises
         THEN Return([error |-> "backend request failed"])
         ELSE Return(parse_output(n, env.output_text))

----------------------------------------------------------------------------
(* tools.py: run_with_retries, the tenacity policy of lines 290-295 *)

stop_after_attempt_late(attempt) == attempt > 3

\* stop=stop_after_attempt(3): no further attempt once this many were made
stop_after_attempt(attempt) == attempt >= 3

wait_min == 4
wait_max == 10
wait_multiplier == 1

Min(a, b) == IF a < b THEN a ELSE b
Max(a, b) == IF a > b THEN a ELSE b

wait_exponential_unclamped(attempt) == wait_multiplier * 2 ^ (attempt - 1)

\* wait=wait_exponential(multiplier=1, min=4, max=10): the sleep after a
\* failed attempt, multiplier * 2^(attempt-1) clamped to [min, max]
wait_exponential(attempt) ==
    Max(Max(0, wait_min), Min(wait_multiplier * 2 ^ (attempt - 1), wait_max))

----------------------------------------------------------------------------
(* agents.py: the three nodes.  Each operator is the node's outcome, given
   what run_with_retries produced: the dict it returns to the engine. *)

ErrorEntry(n, kind, detail) == [node |-> node_tag(n), kind |-> kind, detail |-> detail]

page_auditor_node_uncaught(res) ==
    IF res.raised
    THEN Raise(res.exc)
    ELSE IF "error" \in DOMAIN res.value
         THEN Return([errors |-> <<ErrorEntry("page_auditor", "Error", res.value.error)>>])
         ELSE Return(res.value)

page_auditor_node_writes_error(res) ==
    IF res.raised
    THEN Return([errors |-> <<ErrorEntry("page_auditor", "Exception", res.exc)>>,
                 page_audit |-> [error |-> res.exc]])
    ELSE IF "error" \in DOMAIN res.value
         THEN Return([errors |-> <<ErrorEntry("page_auditor", "Error", res.value.error)>>,
                      page_audit |-> [error |-> res.value.error]])
         ELSE Return(res.value)

page_auditor_node(res) ==
    IF res.raised
    THEN Return([errors |-> <<ErrorEntry("page_auditor", "Exception", res.exc)>>])
    ELSE IF "error" \in DOMAIN res.value
         THEN Return([errors |-> <<ErrorEntry("page_auditor", "Error", res.value.error)>>])
         ELSE Return(res.value)

serp_analyst_node_sets_output(res) ==
    IF res.raised
    THEN Return([errors |-> <<ErrorEntry("serp_analyst", "Exception", res.exc)>>])
    ELSE IF "error" \in DOMAIN res.value
         THEN Return([errors |-> <<ErrorEntry("serp_analyst", "Error", res.value.error)>>,
                      serp_analysis |-> res.value])
         ELSE Return(res.value)

serp_analyst_node(res) ==
    IF res.raised
    THEN Return([errors |-> <<ErrorEntry("serp_analyst", "Exception", res.exc)>>])
    ELSE IF "error" \in DOMAIN res.value
         THEN Return([errors |-> <<ErrorEntry("serp_analyst", "Error", res.value.error)>>])
         ELSE Return(res.value)

optimization_advisor_node_uncaught(res) ==
    IF res.raised
    THEN Raise(res.exc)
    ELSE IF "error" \in DOMAIN res.value
         THEN Return([errors |-> <<ErrorEntry("optimization_advisor", "Error", res.value.error)>>])
         ELSE Return(res.value)

optimization_advisor_node_resets_errors(res) ==
    IF res.raised
    THEN Return([errors |-> <<ErrorEntry("optimization_advisor", "Exception", res.exc)>>])
    ELSE IF "error" \in DOMAIN res.value
         THEN Return([errors |-> <<ErrorEntry("optimization_advisor", "Error", res.value.error)>>])
         ELSE Return([report |-> res.value.report, errors |-> <<>>])

optimization_advisor_node(res) ==
    IF res.raised
    THEN Return([errors |-> <<ErrorEntry("optimization_advisor", "Exception", res.exc)>>])
    ELSE IF "error" \in DOMAIN res.value
         THEN Return([errors |-> <<ErrorEntry("optimization_advisor", "Error", res.value.error)>>])
         ELSE Return(res.value)

\* serp_analyst_node, lines 79-80:
\* audit_data.get("target_keywords", {}).get("primary_keyword")
primary_keyword(audit_data) ==
    IF "target_keywords" \in DOMAIN audit_data
    THEN Opt(audit_data.target_keywords, "primary_keyword", Null)
    ELSE Null

no_primary_keyword_empty_only(audit_data) == primary_keyword(audit_data) = ""

no_primary_keyword_none_only(audit_data) == primary_keyword(audit_data) = Null

\* serp_analyst_node, line 82: "if not primary_keyword" takes the skip path
no_primary_keyword(audit_data) == primary_keyword(audit_data) \in {Null, ""}

NoKeywordSentinel == [error |-> "No primary keyword found"]

----------------------------------------------------------------------------
(* agents.py: the graph *)

Edge_skips_serp(n) ==
    CASE n = "START"                -> "page_auditor"
      [] n = "page_auditor"         -> "optimization_advisor"
      [] n = "serp_analyst"         -> "optimization_advisor"
      [] n = "optimization_advisor" -> "END"

\* set_entry_point and add_edge, lines 124-134
Edge(n) ==
    CASE n = "START"                -> "page_auditor"
      [] n = "page_auditor"         -> "serp_analyst"
      [] n = "serp_analyst"         -> "optimization_advisor"
      [] n = "optimization_advisor" -> "END"

apply_writes_replace(st, update) ==
    [k \in DOMAIN st |-> IF k \in DOMAIN update THEN update[k] ELSE initial_state("")[k]]

\* How the engine merges a node's returned dict into the channels.  No key
\* of AgentState carries a reducer function (the Annotated metadata are plain
\* strings), so every channel keeps the last value written to it.
apply_writes(st, update) ==
    [k \in DOMAIN st |-> IF k \in DOMAIN update THEN update[k] ELSE st[k]]

NoResult == Return(EmptyDict)

----------------------------------------------------------------------------
(* Start-up: the module-level code of tools.py and agents.py *)

Environments ==
    [GROQ_API_KEY : BOOLEAN, Groq : BOOLEAN, GEMINI_API_KEY : BOOLEAN, genai : BOOLEAN]

backend_configured_keys_only(e) == e.GROQ_API_KEY \/ e.GEMINI_API_KEY

\* tools.py lines 20-26: the import goes on when this holds, else RuntimeError
backend_configured(e) ==
    (e.GROQ_API_KEY /\ e.Groq) \/ (e.GEMINI_API_KEY /\ e.genai)

\* agents.py lines 30-57: whether the unit is constructed with tools
has_tools(n) == n \in {"page_auditor", "serp_analyst"}

\* tools.py lines 164-186, LlmAgent.__init__: the backend the agent gets, or
\* "raise" for RuntimeError("No LLM backend available.")
LlmAgent_init(e, tools) ==
    IF (e.GROQ_API_KEY /\ e.Groq) /\ ~(tools /\ e.genai /\ e.GEMINI_API_KEY)
    THEN "groq"
    ELSE IF e.genai THEN "gemini" ELSE "raise"

NoBackend == [n \in Nodes |-> "none"]

----------------------------------------------------------------------------
(* The state machine *)

\* the state once the modules are imported and main has built the fresh state
Init ==
    /\ environ \in {e \in Environments : backend_configured(e)}
    /\ boot = "running"
    /\ backend = [n \in Nodes |-> LlmAgent_init(environ, has_tools(n))]
    /\ firecrawl = [installed |-> TRUE, key |-> TRUE, instance |-> FALSE]
    /\ scrape_log = <<>>
    /\ json_data = EmptyDict
    /\ validated = EmptyDict
    /\ arg_url \in Urls
    /\ state = initial_state(arg_url)
    /\ pc = "START"
    /\ phase = "enter"
    /\ attempt_number = 0
    /\ input_data = EmptyDict
    /\ result = [n \in Nodes |-> NoResult]
    /\ delays = <<>>
    /\ calls = [n \in Nodes |-> 0]
    /\ nodelog = <<>>
    /\ errlog = <<>>

\* main.py line 35: seo_audit_graph.invoke(initial_state) enters the graph
invoke ==
    /\ boot = "running"
    /\ pc = "START"
    /\ pc' = Edge("START")
    /\ phase' = "enter"
    /\ UNCHANGED <<arg_url, state, attempt_number, input_data, result, delays,
                   calls, nodelog, errlog, aux>>

\* a node hands its input to run_with_retries
Call(n, input) ==
    /\ pc = n
    /\ phase = "enter"
    /\ phase' = "call"
    /\ attempt_number' = 1
    /\ input_data' = input
    /\ UNCHANGED <<arg_url, state, pc, result, delays, calls, nodelog, errlog, aux>>

\* the engine takes the node's outcome: merges the returned dict and follows
\* the edge, or lets the node's fault escape from invoke
Finish(n, out) ==
    /\ IF out.raised
       THEN /\ pc' = "RAISED"
            /\ UNCHANGED <<state, nodelog, errlog>>
       ELSE /\ state' = apply_writes(state, out.value)
            /\ pc' = Edge(n)
            /\ nodelog' = Append(nodelog, n)
            /\ errlog' = Append(errlog, state'.errors)
    /\ phase' = "enter"
    /\ attempt_number' = 0
    /\ UNCHANGED <<arg_url, input_data, delays, calls, aux>>

page_auditor_call == Call("page_auditor", [url |-> state.url])

serp_analyst_skip ==
    /\ pc = "serp_analyst"
    /\ phase = "enter"
    /\ no_primary_keyword(state.page_audit)
    /\ Finish("serp_analyst", Return([serp_analysis |-> NoKeywordSentinel]))
    /\ UNCHANGED result

serp_analyst_call ==
    /\ pc = "serp_analyst"
    /\ ~no_primary_keyword(state.page_audit)
    /\ Call("serp_analyst", [page_audit |-> state.page_audit])

optimization_advisor_call ==
    Call("optimization_advisor",
         [page_audit |-> state.page_audit, serp_analysis |-> state.serp_analysis])

wrapper_retries_error_values ==
    /\ pc \in Nodes
    /\ phase = "call"
    /\ \E env \in Envs(pc) :
         LET out == LlmAgent_run(pc, env) IN
           /\ calls' = [calls EXCEPT ![pc] = @ + 1]
           /\ IF ~out.raised /\ ("error" \notin DOMAIN out.value
                                  \/ stop_after_attempt(attempt_number))
              THEN /\ phase' = "returned"
                   /\ result' = [result EXCEPT ![pc] = out]
                   /\ UNCHANGED <<attempt_number, delays>>
              ELSE IF stop_after_attempt(attempt_number)
                   THEN /\ phase' = "raised"
                        /\ result' = [result EXCEPT ![pc] = out]
                        /\ UNCHANGED <<attempt_number, delays>>
                   ELSE /\ delays' = Append(delays, wait_exponential(attempt_number))
                        /\ attempt_number' = attempt_number + 1
                        /\ result' = [result EXCEPT ![pc] = out]
                        /\ UNCHANGED phase
    /\ UNCHANGED <<arg_url, state, pc, input_data, nodelog, errlog, aux>>

\* one attempt of the wrapper inside run_with_retries: call the unit's run;
\* a return ends the loop, a fault is kept as the attempt's outcome and the
\* wrapper sleeps and retries, until the stop condition holds and the fault is
\* re-raised to the node
wrapper ==
    /\ pc \in Nodes
    /\ phase = "call"
    /\ \E env \in Envs(pc) :
         LET out == LlmAgent_run(pc, env) IN
           /\ calls' = [calls EXCEPT ![pc] = @ + 1]
           /\ IF ~out.raised
              THEN /\ phase' = "returned"
                   /\ result' = [result EXCEPT ![pc] = out]
                   /\ UNCHANGED <<attempt_number, delays>>
              ELSE IF stop_after_attempt(attempt_number)
                   THEN /\ phase' = "raised"
                        /\ result' = [result EXCEPT ![pc] = out]
                        /\ UNCHANGED <<attempt_number, delays>>
                   ELSE /\ delays' = Append(delays, wait_exponential(attempt_number))
                        /\ attempt_number' = attempt_number + 1
                        /\ result' = [result EXCEPT ![pc] = out]
                        /\ UNCHANGED phase
    /\ UNCHANGED <<arg_url, state, pc, input_data, nodelog, errlog, aux>>

page_auditor_return ==
    /\ pc = "page_auditor"
    /\ phase \in {"returned", "raised"}
    /\ Finish("page_auditor", page_auditor_node(result["page_auditor"]))
    /\ UNCHANGED result

serp_analyst_return ==
    /\ pc = "serp_analyst"
    /\ phase \in {"returned", "raised"}
    /\ Finish("serp_analyst", serp_analyst_node(result["serp_analyst"]))
    /\ UNCHANGED result

optimization_advisor_return ==
    /\ pc = "optimization_advisor"
    /\ phase \in {"returned", "raised"}
    /\ Finish("optimization_advisor",
              optimization_advisor_node(result["optimization_advisor"]))
    /\ UNCHANGED result

Next ==
    \/ invoke
    \/ page_auditor_call
    \/ serp_analyst_skip
    \/ serp_analyst_call
    \/ optimization_advisor_call
    \/ wrapper
    \/ page_auditor_return
    \/ serp_analyst_return
    \/ optimization_advisor_return

Spec == Init /\ [][Next]_vars

----------------------------------------------------------------------------
(* The process from its start: imports, then main *)

StartupInit ==
    /\ environ \in Environments
    /\ boot = "importing"
    /\ backend = NoBackend
    /\ firecrawl = [installed |-> TRUE, key |-> TRUE, instance |-> FALSE]
    /\ scrape_log = <<>>
    /\ json_data = EmptyDict
    /\ validated = EmptyDict
    /\ arg_url \in Urls
    /\ state = EmptyDict
    /\ pc = "START"
    /\ phase = "enter"
    /\ attempt_number = 0
    /\ input_data = EmptyDict
    /\ result = [n \in Nodes |-> NoResult]
    /\ delays = <<>>
    /\ calls = [n \in Nodes |-> 0]
    /\ nodelog = <<>>
    /\ errlog = <<>>

\* import of tools.py: the backend check of lines 20-26, then the module-level
\* search_executor_agent = LlmAgent(..., tools=[google_search]) of line 259
import_tools ==
    /\ boot = "importing"
    /\ boot' = IF backend_configured(environ) /\ LlmAgent_init(environ, TRUE) # "raise"
               THEN "tools_imported"
               ELSE "aborted"
    /\ UNCHANGED <<arg_url, state, pc, phase, attempt_number, input_data, result,
                   delays, calls, nodelog, errlog, environ, backend,
                   firecrawl, scrape_log, json_data, validated>>

\* import of agents.py: the three module-level LlmAgent(...) of lines 30-57
import_agents ==
    /\ boot = "tools_imported"
    /\ IF \E n \in Nodes : LlmAgent_init(environ, has_tools(n)) = "raise"
       THEN boot' = "aborted" /\ UNCHANGED backend
       ELSE /\ boot' = "agents_imported"
            /\ backend' = [n \in Nodes |-> LlmAgent_init(environ, has_tools(n))]
    /\ UNCHANGED <<arg_url, state, pc, phase, attempt_number, input_data, result,
                   delays, calls, nodelog, errlog, environ,
                   firecrawl, scrape_log, json_data, validated>>

\* main.py lines 11-28: main(url) builds the fresh state
main ==
    /\ boot = "agents_imported"
    /\ boot' = "running"
    /\ state' = initial_state(arg_url)
    /\ UNCHANGED <<arg_url, pc, phase, attempt_number, input_data, result,
                   delays, calls, nodelog, errlog, environ, backend,
                   firecrawl, scrape_log, json_data, validated>>

StartupNext ==
    \/ import_tools
    \/ import_agents
    \/ main
    \/ Next

StartupSpec == StartupInit /\ [][StartupNext]_vars

\* invoke is a blocking call that runs to completion: every enabled step of
\* the run is eventually taken
FairSpec == Spec /\ WF_vars(Next)

----------------------------------------------------------------------------
(* The scrape adapter on its own: tools.py lines 98-133 *)

MaxScrapes == 3

\* what the Firecrawl service does with one request
ScrapeWorlds == {"ok", "network error", "malformed response"}

\* FirecrawlApp(api_key=os.getenv("FIRECRAWL_API_KEY")), line 103: the
\* firecrawl-py client refuses to be built without an API key
FirecrawlApp_init(key) == IF key THEN Return("client") ELSE Raise("No API key provided")

\* FirecrawlTool.scrape, lines 105-118: every fault of scrape_url is caught
FirecrawlTool_scrape(url, world) ==
    IF world = "ok"
    THEN Return([markdown |-> url])
    ELSE Return([error |-> world])

\* firecrawl_toolset(url): the fallback of lines 130-133 when the library is
\* missing, else firecrawl_scrape, lines 122-126, which builds the global
\* FirecrawlTool on first use, outside any try block
firecrawl_toolset(fc, url, world) ==
    IF ~fc.installed
    THEN Return([error |-> "Firecrawl library not available."])
    ELSE IF ~fc.instance /\ FirecrawlApp_init(fc.key).raised
         THEN FirecrawlApp_init(fc.key)
         ELSE FirecrawlTool_scrape(url, world)

Idle ==
    /\ environ = [GROQ_API_KEY |-> FALSE, Groq |-> FALSE,
                  GEMINI_API_KEY |-> TRUE, genai |-> TRUE]
    /\ boot = "running"
    /\ backend = [n \in Nodes |-> LlmAgent_init(environ, has_tools(n))]
    /\ arg_url \in Urls
    /\ state = EmptyDict
    /\ pc = "START"
    /\ phase = "enter"
    /\ attempt_number = 0
    /\ input_data = EmptyDict
    /\ result = [n \in Nodes |-> NoResult]
    /\ delays = <<>>
    /\ calls = [n \in Nodes |-> 0]
    /\ nodelog = <<>>
    /\ errlog = <<>>

ScrapeInit ==
    /\ Idle
    /\ firecrawl \in [installed : BOOLEAN, key : BOOLEAN, instance : {FALSE}]
    /\ scrape_log = <<>>
    /\ json_data = EmptyDict
    /\ validated = EmptyDict

\* one call of the adapter by a caller (the model's tool call)
firecrawl_scrape ==
    /\ Len(scrape_log) < MaxScrapes
    /\ \E url \in Urls, world \in ScrapeWorlds :
         LET out == firecrawl_toolset(firecrawl, url, world) IN
           /\ scrape_log' = Append(scrape_log, out)
           /\ firecrawl' = [firecrawl EXCEPT
                               !.instance = @ \/ (firecrawl.installed /\ ~out.raised)]
    /\ UNCHANGED <<arg_url, state, pc, phase, attempt_number, input_data, result,
                   delays, calls, nodelog, errlog, environ, boot, backend,
                   json_data, validated>>

ScrapeNext == firecrawl_scrape

ScrapeSpec == ScrapeInit /\ [][ScrapeNext]_vars

----------------------------------------------------------------------------
(* The page-audit validation on its own: tools.py lines 220-223 with the
   PageAuditOutput contract of schemas.py *)

Restrict(f, S) == [k \in S |-> f[k]]

FullAuditResults ==
    [title_tag |-> "SEO Tools", meta_description |-> "All tools",
     primary_heading |-> "Tools", content_summary |-> "A list of tools",
     secondary_headings |-> <<[tag |-> "h2", text |-> "Pricing"]>>,
     word_count |-> 120,
     technical_findings |-> <<"missing alt text">>,
     content_opportunities |-> <<"add a faq">>]

FullLinkCounts == [internal |-> 3, external |-> 1, broken |-> 0, notes |-> "few links"]

FullTargetKeywords ==
    [primary_keyword |-> "seo tools", search_intent |-> "informational",
     secondary_keywords |-> <<"seo software">>,
     supporting_topics |-> <<"keyword research">>]

AuditRequired == {"title_tag", "meta_description", "primary_heading", "content_summary"}
AuditOptional == {"secondary_headings", "word_count", "technical_findings",
                  "content_opportunities"}
KeywordsRequired == {"primary_keyword", "search_intent"}
KeywordsOptional == {"secondary_keywords", "supporting_topics"}

PageAuditDoc(audit_fields, link_fields, keyword_fields) ==
    [audit_results |->
        Restrict(FullAuditResults, audit_fields \ {"link_counts"})
           @@ (IF "link_counts" \in audit_fields
               THEN [link_counts |-> Restrict(FullLinkCounts, link_fields)]
               ELSE EmptyDict),
     target_keywords |-> Restrict(FullTargetKeywords, keyword_fields)]

\* every document with all required fields and any subset of the optional ones
WellFormedDocs ==
    {PageAuditDoc(AuditRequired \cup {"link_counts"} \cup a, l, KeywordsRequired \cup k) :
        a \in SUBSET AuditOptional, l \in SUBSET DOMAIN FullLinkCounts,
        k \in SUBSET KeywordsOptional}

\* documents that lack one required field
IllFormedDocs ==
    {PageAuditDoc((AuditRequired \cup {"link_counts"}) \ {f}, {}, KeywordsRequired) :
        f \in AuditRequired \cup {"link_counts"}}
    \cup {PageAuditDoc(AuditRequired \cup {"link_counts"}, {}, KeywordsRequired \ {f}) :
        f \in KeywordsRequired}
    \cup {[audit_results |-> Restrict(FullAuditResults, AuditRequired)
                               @@ [link_counts |-> EmptyDict]]}

ValidationInit ==
    /\ Idle
    /\ firecrawl = [installed |-> TRUE, key |-> TRUE, instance |-> FALSE]
    /\ scrape_log = <<>>
    /\ json_data \in WellFormedDocs \cup IllFormedDocs
    /\ validated = EmptyDict

\* the page auditor's unit validates the decoded document
validate ==
    /\ validated = EmptyDict
    /\ validated' = validate_output("page_auditor", json_data, "{document}")
    /\ UNCHANGED <<arg_url, state, pc, phase, attempt_number, input_data, result,
                   delays, calls, nodelog, errlog, environ, boot, backend,
                   firecrawl, scrape_log, json_data>>

ValidationNext == validate

ValidationSpec == ValidationInit /\ [][ValidationNext]_vars

----------------------------------------------------------------------------
(* Properties *)

Range(seq) == {seq[i] : i \in 1..Len(seq)}

IsPrefix(a, b) == Len(a) <= Len(b) /\ \A i \in 1..Len(a) : a[i] = b[i]

\* the node's unit ended in a data error or in a fault raised on every attempt
Failed(n) == result[n].raised \/ "error" \in DOMAIN result[n].value

Finished(n) == n \in Range(nodelog)

\* the errors entry, an interpolated string, carries the given text
Includes(entry, text) == entry.detail = text

\* C1: errors is append-only over the run: the errors list seen after a node
\* is a prefix of the list seen after every later node, and at the end it
\* holds one entry per failed stage.
C1_ErrorsAppendOnly ==
    /\ \A i, j \in 1..Len(errlog) : i <= j => IsPrefix(errlog[i], errlog[j])
    /\ pc = "END" => Len(state.errors) = Cardinality({n \in Nodes : Failed(n)})

KeywordAbsentOrEmpty(page_audit) ==
    \/ "target_keywords" \notin DOMAIN page_audit
    \/ "primary_keyword" \notin DOMAIN page_audit.target_keywords
    \/ page_audit.target_keywords.primary_keyword = ""

\* C2: when the primary keyword is absent or empty as SerpAnalyst runs, the
\* stage-2 unit is never invoked, serp_analysis is the sentinel once the node
\* has finished and to the end of the run, and errors has no SerpAnalyst entry.
C2_SkipShortCircuit ==
    (Finished("page_auditor") /\ KeywordAbsentOrEmpty(state.page_audit)) =>
        /\ calls["serp_analyst"] = 0
        /\ \A e \in Range(state.errors) : e.node # "SerpAnalyst"
        /\ Finished("serp_analyst") => state.serp_analysis = NoKeywordSentinel

C2_Witness ==
    /\ pc = "END"
    /\ state.page_audit # EmptyDict
    /\ state.page_audit.target_keywords.primary_keyword = ""
    /\ state.serp_analysis = NoKeywordSentinel

Producer(f) ==
    CASE f = "url"           -> "nobody"
      [] f = "page_audit"    -> "page_auditor"
      [] f = "serp_analysis" -> "serp_analyst"
      [] f = "report"        -> "optimization_advisor"

\* C3: a step changes url, page_audit, serp_analysis or report only when the
\* node executing is that field's producer, and never turns a non-empty field
\* back into its empty default.
C3_AdditiveMerge ==
    [][\A f \in {"url", "page_audit", "serp_analysis", "report"} :
          /\ state'[f] # state[f] => pc = Producer(f)
          /\ state[f] # initial_state("")[f] => state'[f] # initial_state("")[f]]_vars

C3_Witness ==
    /\ pc = "END"
    /\ state.page_audit # EmptyDict
    /\ state.serp_analysis \notin {EmptyDict, NoKeywordSentinel}
    /\ state.report # ""
    /\ state.errors = <<>>

\* C4: every run eventually reaches the terminal state with the url it was
\* started with, whichever stages fail.
C4_Terminates == <>(pc = "END" /\ state.url = arg_url)

C4_Witness ==
    /\ pc = "END"
    /\ state.url = arg_url
    /\ result["page_auditor"].raised
    /\ result["optimization_advisor"].raised

\* C5: a unit whose run raises on every attempt is invoked 3 times and no
\* more; the fault is then re-raised to the node, which records it as an
\* Exception entry of errors.
C5_RetryBound ==
    /\ \A n \in Nodes : calls[n] <= 3
    /\ phase = "raised" => (calls[pc] = 3 /\ result[pc].raised)
    /\ \A i \in 1..Len(nodelog) :
         result[nodelog[i]].raised =>
            /\ calls[nodelog[i]] = 3
            /\ ErrorEntry(nodelog[i], "Exception", result[nodelog[i]].exc)
                  \in Range(errlog[i])

C5_Witness ==
    /\ Finished("page_auditor")
    /\ result["page_auditor"].raised
    /\ calls["page_auditor"] = 3
    /\ Len(errlog[1]) = 1

\* C6: a fault of the inference backend call is retried and reaches errors
\* only after the retries are exhausted: a unit that ends with the backend's
\* fault has been attempted 3 times.
C6_BackendFaultRetried ==
    \A n \in Nodes :
        (~result[n].raised /\ result[n].value = [error |-> "backend request failed"])
            => calls[n] = 3

\* C7: when the inference text fails JSON parsing or schema validation, the
\* node's errors entry includes the raw offending text.
C7_EntryHasRawText ==
    \A i \in 1..Len(nodelog) :
        (~result[nodelog[i]].raised /\ "raw_output" \in DOMAIN result[nodelog[i]].value)
            => \E e \in Range(errlog[i]) :
                  /\ e.node = node_tag(nodelog[i])
                  /\ Includes(e, result[nodelog[i]].value.raw_output)

\* C8: the length of errors after a stage is at least its length after the
\* stage before (and at least 0 after stage 1).
C8_ErrorsLengthMonotonic ==
    \A i \in 1..Len(errlog) :
        Len(errlog[i]) >= (IF i = 1 THEN 0 ELSE Len(errlog[i - 1]))

C8_Witness ==
    /\ Len(errlog) = 3
    /\ Failed("page_auditor")
    /\ Failed("optimization_advisor")
    /\ Len(errlog[1]) = 1
    /\ Len(errlog[3]) = 1

\* C9: no node lets a fault out: a node whose unit failed (a data error or a
\* fault raised on every attempt) hands the engine an errors entry with its
\* tag, and the engine never ends by raising.
C9_NoFaultEscapes ==
    [][/\ pc' # "RAISED"
       /\ (pc \in Nodes /\ phase \in {"returned", "raised"} /\ Failed(pc)) =>
             \E e \in Range(state'.errors) :
                /\ e.node = node_tag(pc)
                /\ e.kind = (IF result[pc].raised THEN "Exception" ELSE "Error")]_vars

C9_Witness ==
    /\ pc = "END"
    /\ result["page_auditor"].raised
    /\ ~result["optimization_advisor"].raised
    /\ Failed("optimization_advisor")

\* C10: the nodes run one at a time in the order PageAuditor, SerpAnalyst,
\* OptimizationAdvisor, each once: the nodes finished so far are exactly those
\* before the current one, whatever their outcomes, and the advisor's unit has
\* been invoked when the run ends.
C10_FixedOrder ==
    /\ pc \in {"START", "page_auditor", "serp_analyst", "optimization_advisor", "END"}
    /\ pc \in {"START", "page_auditor"} => nodelog = <<>>
    /\ pc = "serp_analyst" => nodelog = <<"page_auditor">>
    /\ pc = "optimization_advisor" => nodelog = <<"page_auditor", "serp_analyst">>
    /\ pc = "END" =>
          /\ nodelog = <<"page_auditor", "serp_analyst", "optimization_advisor">>
          /\ calls["optimization_advisor"] >= 1

C10_Witness ==
    /\ pc = "END"
    /\ Failed("page_auditor")
    /\ calls["serp_analyst"] = 0
    /\ calls["optimization_advisor"] >= 1

IsPageAuditRecord(r) ==
    /\ DOMAIN r = {"audit_results", "target_keywords"}
    /\ DOMAIN r.audit_results =
          {"title_tag", "meta_description", "primary_heading", "secondary_headings",
           "word_count", "content_summary", "link_counts", "technical_findings",
           "content_opportunities"}
    /\ DOMAIN r.audit_results.link_counts = {"internal", "external", "broken", "notes"}
    /\ DOMAIN r.target_keywords =
          {"primary_keyword", "secondary_keywords", "search_intent", "supporting_topics"}

IsSerpAnalysisRecord(r) ==
    DOMAIN r = {"primary_keyword", "top_10_results", "title_patterns", "content_formats",
                "people_also_ask", "key_themes", "differentiation_opportunities"}

OnlyErrorKey(r) == DOMAIN r = {"error"}

\* C11 (as stated): at the end of a run page_audit and serp_analysis each hold
\* a record of their schema's shape or a record with only an error key, and
\* page_audit holds {error: ...} when stage 1 failed.
C11_RecordOrError ==
    pc = "END" =>
        /\ IsPageAuditRecord(state.page_audit) \/ OnlyErrorKey(state.page_audit)
        /\ IsSerpAnalysisRecord(state.serp_analysis) \/ OnlyErrorKey(state.serp_analysis)
        /\ Failed("page_auditor") => OnlyErrorKey(state.page_audit)

\* C11 (amended): at the end of a run page_audit is a record of its schema's
\* shape when stage 1 succeeded and the empty record {} when it failed;
\* serp_analysis is the skip sentinel when stage 2 was skipped, the empty
\* record {} when its unit failed, and a record of its schema's shape otherwise.
C11_RecordEmptyOrSentinel ==
    pc = "END" =>
        /\ IF Failed("page_auditor")
           THEN state.page_audit = EmptyDict
           ELSE IsPageAuditRecord(state.page_audit)
        /\ IF calls["serp_analyst"] = 0
           THEN state.serp_analysis = NoKeywordSentinel
           ELSE IF Failed("serp_analyst")
                THEN state.serp_analysis = EmptyDict
                ELSE IsSerpAnalysisRecord(state.serp_analysis)

C11_Witness ==
    /\ pc = "END"
    /\ Failed("page_auditor")
    /\ ~result["page_auditor"].raised
    /\ state.page_audit = EmptyDict

\* the unit of node n ended by returning a value that carries an error key
DataError(n) == ~result[n].raised /\ "error" \in DOMAIN result[n].value

\* C12 (as stated): a unit that returns a value carrying an error key has been
\* invoked exactly once in the run.
C12_DataErrorInvokedOnce ==
    \A n \in Nodes : DataError(n) => calls[n] = 1

\* C12 (amended): a returned error value is never retried: once the unit has
\* returned it no further invocation of that unit follows, and when it comes
\* back from the first attempt the unit has been invoked exactly once.
C12_DataErrorNotRetried ==
    [][/\ \A n \in Nodes : DataError(n) => calls'[n] = calls[n]
       /\ (pc \in Nodes /\ phase = "call" /\ attempt_number = 1 /\ phase' = "returned")
             => calls'[pc] = 1]_vars

C12_Witness ==
    /\ pc = "END"
    /\ DataError("page_auditor") /\ calls["page_auditor"] = 1
    /\ DataError("optimization_advisor") /\ calls["optimization_advisor"] = 2

\* C13: a node whose unit returned an error value or raised on its last
\* attempt leaves its output key as it was and hands the engine exactly one
\* errors entry, tagged with its name and with Error or Exception.
C13_FailedNodeKeepsOutput ==
    [][(pc \in Nodes /\ phase \in {"returned", "raised"} /\ Failed(pc)) =>
          /\ state'[output_key(pc)] = state[output_key(pc)]
          /\ Cardinality({i \in 1..Len(state'.errors) :
                             state'.errors[i].node = node_tag(pc)}) = 1
          /\ \A i \in 1..Len(state'.errors) :
                state'.errors[i].node = node_tag(pc) =>
                   state'.errors[i].kind =
                      (IF result[pc].raised THEN "Exception" ELSE "Error")]_vars

C13_Witness ==
    /\ Finished("serp_analyst")
    /\ DataError("serp_analyst")
    /\ state.serp_analysis = EmptyDict
    /\ \E i \in 1..Len(state.errors) : state.errors[i].node = "SerpAnalyst"

NoCredential(e) ==
    ~(e.GROQ_API_KEY /\ e.Groq) /\ ~(e.GEMINI_API_KEY /\ e.genai)

\* C14: with no backend credential configured the start-up aborts during the
\* imports, before any state is built and before any stage runs; and once the
\* state is built the process is running with a backend for every unit, so
\* the missing-backend fault cannot come up in the pipeline.
C14_FailFast ==
    /\ (NoCredential(environ) /\ boot # "importing") => boot = "aborted"
    /\ boot = "aborted" =>
          (state = EmptyDict /\ pc = "START" /\ \A n \in Nodes : calls[n] = 0)
    /\ (state # EmptyDict \/ pc # "START") =>
          (boot = "running" /\ \A n \in Nodes : backend[n] \in {"groq", "gemini"})

C14_Witness ==
    /\ boot = "aborted"
    /\ NoCredential(environ)
    /\ environ.GROQ_API_KEY
    /\ environ.genai

\* C15: the scrape adapter never lets a raised fault past its boundary: every
\* call of firecrawl_toolset returns a value.
C15_ScrapeNeverRaises ==
    \A i \in 1..Len(scrape_log) : ~scrape_log[i].raised

WellFormedPageAudit(d) ==
    /\ {"audit_results", "target_keywords"} \subseteq DOMAIN d
    /\ AuditRequired \cup {"link_counts"} \subseteq DOMAIN d.audit_results
    /\ KeywordsRequired \subseteq DOMAIN d.target_keywords

\* C16: validating a well-formed page-audit document gives {page_audit: record}
\* without an error key; every required field of the record has the document's
\* value and every optional field the document omits has its default (empty
\* list, or null for an optional integer or string).
C16_SchemaRoundTrip ==
    (validated # EmptyDict /\ WellFormedPageAudit(json_data)) =>
        /\ DOMAIN validated = {"page_audit"}
        /\ IsPageAuditRecord(validated.page_audit)
        /\ \A f \in AuditRequired :
              validated.page_audit.audit_results[f] = json_data.audit_results[f]
        /\ \A f \in DOMAIN json_data.audit_results.link_counts :
              validated.page_audit.audit_results.link_counts[f]
                 = json_data.audit_results.link_counts[f]
        /\ \A f \in KeywordsRequired :
              validated.page_audit.target_keywords[f] = json_data.target_keywords[f]
        /\ \A f \in {"secondary_headings", "technical_findings", "content_opportunities"} :
              f \notin DOMAIN json_data.audit_results =>
                 validated.page_audit.audit_results[f] = <<>>
        /\ "word_count" \notin DOMAIN json_data.audit_results =>
              validated.page_audit.audit_results.word_count = Null
        /\ \A f \in DOMAIN FullLinkCounts :
              f \notin DOMAIN json_data.audit_results.link_counts =>
                 validated.page_audit.audit_results.link_counts[f] = Null
        /\ \A f \in KeywordsOptional :
              f \notin DOMAIN json_data.target_keywords =>
                 validated.page_audit.target_keywords[f] = <<>>

C16_Witness ==
    /\ validated # EmptyDict
    /\ WellFormedPageAudit(json_data)
    /\ DOMAIN json_data.target_keywords = KeywordsRequired
    /\ DOMAIN json_data.audit_results = AuditRequired \cup {"link_counts", "word_count"}
    /\ DOMAIN json_data.audit_results.link_counts = {"internal"}
    /\ validated.page_audit.audit_results.link_counts.notes = Null

\* C17 (as stated): the wait after the first, second and third failed attempt
\* is 4, 8 and 10 time-units.
C17_Delays4_8_10 ==
    [][delays' # delays =>
          delays'[Len(delays')] = <<4, 8, 10>>[attempt_number]]_vars

\* C17 (amended): run_with_retries waits only after the first and the second
\* failed attempt, each time 4 time-units, so every delay lies between the
\* floor 4 and the ceiling 10.
C17_DelaysAtFloor ==
    [][delays' # delays =>
          /\ attempt_number \in {1, 2}
          /\ delays' = Append(delays, 4)
          /\ \A i \in 1..Len(delays') : 4 <= delays'[i] /\ delays'[i] <= 10]_vars

C17_Witness ==
    /\ pc = "END"
    /\ delays = <<4, 4, 4, 4>>
    /\ calls["page_auditor"] = 3
    /\ calls["optimization_advisor"] = 3

\* C18: when stage 1 failed, page_audit is still empty as SerpAnalyst runs,
\* stage 2 takes the skip path (its unit is never invoked, serp_analysis ends
\* as the sentinel, errors never gets a SerpAnalyst entry) and the advisor's
\* unit is handed the empty page_audit and the sentinel.
C18_FailedAuditSkipsSerp ==
    (Finished("page_auditor") /\ Failed("page_auditor")) =>
        /\ state.page_audit = EmptyDict
        /\ calls["serp_analyst"] = 0
        /\ \A i \in 1..Len(errlog) : \A e \in Range(errlog[i]) : e.node # "SerpAnalyst"
        /\ Finished("serp_analyst") => state.serp_analysis = NoKeywordSentinel
        /\ (pc = "optimization_advisor" /\ phase # "enter") \/ pc = "END" =>
              input_data = [page_audit |-> EmptyDict, serp_analysis |-> NoKeywordSentinel]

C18_Witness ==
    /\ pc = "END"
    /\ result["page_auditor"].raised
    /\ calls["optimization_advisor"] >= 1
    /\ state.report # ""
    /\ input_data = [page_audit |-> EmptyDict, serp_analysis |-> NoKeywordSentinel]

\* C19: at the end of a run an empty report comes with a non-empty errors list.
C19_EmptyReportHasErrors ==
    (pc = "END" /\ state.report = "") => state.errors # <<>>

====
